---- MODULE Spec2Model ----
(***************************************************************************)
(* A model of the reactor simulation engine (src/components.js) and of the *)
(* game loop that drives it (src/main.js).                                 *)
(*                                                                         *)
(* Numbers.  heat and storedHeat are JavaScript Numbers.  The only         *)
(* operation of the engine whose result is not exactly representable for   *)
(* the values the game produces is the division heat / coolantCells.length *)
(* (components.js:348), which rounds its quotient to the nearest           *)
(* representable value.  The model keeps that rounding on a binary grid:   *)
(* every quantity is an integer count of ulps, One ulps make 1.0, sums,    *)
(* differences, min and max are exact and FDiv rounds to the nearest ulp,  *)
(* ties to even.                                                           *)
(***************************************************************************)
EXTENDS Integers, Sequences, FiniteSets, TLC

\* ------------------------------------------------------------- bounds
\* fractional bits kept by a number of the model
FracBits == 2
\* the number of cells of the grid built by Init: one row or one column of Width cells
Width == 2
\* the number of component objects constructed in one behaviour
MaxComps == 2
\* the number of grid.tick / gameTick / comp.tick calls in one behaviour
MaxTicks == 2
\* the number of direct addHeat / removeHeat / addPower / acceptHeat calls in one behaviour
MaxCalls == 1
\* the width and height of the grids that InitTick lays out
TickSize == 3
\* the number of occupied cells up to which every visiting order is tried
MaxPermuted == 4
\* the number of components that grid clicks construct in one behaviour
MaxClicked == 3
\* the number of interval timers set in one behaviour
MaxTimers == 2
\* the number of calls in one behaviour of SpecTick
TickSteps == 1

RECURSIVE Pow2(_)
Pow2(n) == IF n = 0 THEN 1 ELSE 2 * Pow2(n - 1)

\* the representation of 1.0
One == Pow2(FracBits)

\* ------------------------------------------------- program constants
FuelCellCost == 10
VentCost == 5
CoolantCost == 20
basePower == 1
baseHeat == 1
lifespan == 15 * 60
coolingRate == 2
capacity == 200
heatCapacity == 1000
powerCapacity == 100
InitialMoney == 50
gridSize == 6

\* ComponentType
FuelCellType == "fuelCell"
VentType == "vent"
CoolantType == "coolant"
ComponentType == {FuelCellType, VentType, CoolantType}

Min(a, b) == IF a <= b THEN a ELSE b
Max(a, b) == IF a >= b THEN a ELSE b

\* a / n for a >= 0 and n > 0, rounded to the nearest ulp, ties to even
FDiv(a, n) ==
  LET q == a \div n
      r == a % n
  IN  IF 2 * r < n THEN q
      ELSE IF 2 * r > n THEN q + 1
      ELSE IF q % 2 = 0 THEN q ELSE q + 1

VARIABLES
  width,      \* ReactorGrid.width
  height,     \* ReactorGrid.height
  cells,      \* ReactorGrid.cells: cells[y][x] is a component id, 0 for null
  comps,      \* the component objects constructed so far, by id
  heat,       \* ReactorState.heat, in ulps
  power,      \* ReactorState.power, in ulps
  money,      \* ReactorState.money, in ulps
  ticks,      \* the number of tick calls so far
  calls,      \* the number of direct calls of the state's and the coolant cells' methods so far
  ret,        \* what the last call returned
  selectedComponent,  \* main.js selectedComponent: "null" or the palette button's name
  running,    \* main.js running
  tickInterval,  \* main.js tickInterval: the id of an interval timer, 0 for null
  timers,     \* the ids of the interval timers set and not cleared
  lastTimer   \* the number of interval timers set so far

\* the variables of main.js
ui == <<selectedComponent, running, tickInterval, timers, lastTimer>>

vars == <<width, height, cells, comps, heat, power, money, ticks, calls, ret, ui>>

\* ------------------------------------------------------- components
\* new FuelCell(), new Vent(), new CoolantCell(): the fields after construction
NewComponent(type) ==
  [type |-> type, x |-> 0, y |-> 0, gridRef |-> FALSE, age |-> 0, storedHeat |-> 0]

Cost(type) ==
  IF type = FuelCellType THEN FuelCellCost
  ELSE IF type = VentType THEN VentCost
  ELSE CoolantCost

\* setPosition with the coordinates stored the wrong way round
setPositionSwapped(comp, x, y) == [comp EXCEPT !.x = y, !.y = x]

\* ReactorComponent.setPosition
setPosition(comp, x, y) == [comp EXCEPT !.x = x, !.y = y]

\* ------------------------------------------------------- ReactorState
addHeat(h, amount) == h + amount

\* removeHeat without the floor at 0
removeHeatUnfloored(h, amount) == h - amount

removeHeat(h, amount) == Max(0, h - amount)

\* addPower without the clamp at powerCapacity
addPowerUnclamped(p, amount) == p + amount

addPower(p, amount) == Min(p + amount, powerCapacity * One)

\* ------------------------------------------------------- ReactorGrid
inBounds(x, y) == x >= 0 /\ x < width /\ y >= 0 /\ y < height

\* the grid of the constructor: every cell null
EmptyCells(w, h) == [y \in 0..(h - 1) |-> [x \in 0..(w - 1) |-> 0]]

dirs == << <<1, 0>>, <<-1, 0>>, <<0, 1>>, <<0, -1>> >>

RECURSIVE AdjacentFrom(_, _, _, _)
AdjacentFrom(cs, x, y, i) ==
  IF i > Len(dirs) THEN << >>
  ELSE LET nx == x + dirs[i][1]
           ny == y + dirs[i][2]
           rest == AdjacentFrom(cs, x, y, i + 1)
       IN  IF inBounds(nx, ny) /\ cs[ny][nx] # 0
           THEN <<cs[ny][nx]>> \o rest
           ELSE rest

\* ReactorGrid.getAdjacent: the ids of the occupied orthogonal neighbours
getAdjacent(cs, x, y) == AdjacentFrom(cs, x, y, 1)

\* FuelCell.gridNeighbours
gridNeighbours(cs, comp) ==
  IF ~comp.gridRef THEN << >> ELSE getAdjacent(cs, comp.x, comp.y)

\* pulses counting every neighbour, whatever its class
pulsesCountsAny(cs, cps, comp) == 1 + Len(gridNeighbours(cs, comp))

\* pulses counting only the fuel cells that have not expired yet
pulsesCountsLiveOnly(cs, cps, comp) ==
  LET neighbours == gridNeighbours(cs, comp)
  IN  1 + Cardinality({i \in 1..Len(neighbours) :
                         /\ cps[neighbours[i]].type = FuelCellType
                         /\ cps[neighbours[i]].age < lifespan})

\* FuelCell.pulses
pulses(cs, cps, comp) ==
  LET neighbours == gridNeighbours(cs, comp)
  IN  1 + Cardinality({i \in 1..Len(neighbours) : cps[neighbours[i]].type = FuelCellType})

\* ------------------------------------------------------- component ticks
\* The tick context's mutable part: [comps, heat, power].

\* FuelCell.tick with heat growing with the square of the pulses
FuelCellTickQuadratic(cs, s, id) ==
  LET comp == s.comps[id]
  IN  IF comp.age >= lifespan THEN s
      ELSE LET aged == [comp EXCEPT !.age = comp.age + 1]
               cps == [s.comps EXCEPT ![id] = aged]
               p == pulses(cs, cps, aged)
           IN  [comps |-> cps,
                heat |-> addHeat(s.heat, baseHeat * p * p * One),
                power |-> addPower(s.power, basePower * p * One)]

\* FuelCell.tick that still runs at age = lifespan
FuelCellTickLate(cs, s, id) ==
  LET comp == s.comps[id]
  IN  IF comp.age > lifespan THEN s
      ELSE LET aged == [comp EXCEPT !.age = comp.age + 1]
               cps == [s.comps EXCEPT ![id] = aged]
               p == pulses(cs, cps, aged)
           IN  [comps |-> cps,
                heat |-> addHeat(s.heat, baseHeat * p * One),
                power |-> addPower(s.power, basePower * p * One)]

\* FuelCell.tick
FuelCellTick(cs, s, id) ==
  LET comp == s.comps[id]
  IN  IF comp.age >= lifespan THEN s
      ELSE LET aged == [comp EXCEPT !.age = comp.age + 1]
               cps == [s.comps EXCEPT ![id] = aged]
               p == pulses(cs, cps, aged)
               powerGenerated == basePower * p * One
               heatGenerated == baseHeat * p * One
           IN  [comps |-> cps,
                heat |-> addHeat(s.heat, heatGenerated),
                power |-> addPower(s.power, powerGenerated)]

\* Vent.tick
VentTick(s) == [s EXCEPT !.heat = removeHeat(s.heat, coolingRate * One)]

\* CoolantCell.tick that cools the reactor a little
CoolantTickCools(s) == [s EXCEPT !.heat = removeHeat(s.heat, One)]

\* CoolantCell.tick
CoolantTick(s) == s

\* comp.tick(ctx), dispatched on the component's class
ComponentTick(cs, s, id) ==
  IF s.comps[id].type = FuelCellType THEN FuelCellTick(cs, s, id)
  ELSE IF s.comps[id].type = VentType THEN VentTick(s)
  ELSE CoolantTick(s)

\* acceptHeat that stores the whole amount
acceptHeatUnbounded(comp, amount) ==
  [comp |-> [comp EXCEPT !.storedHeat = comp.storedHeat + amount], excess |-> 0]

\* acceptHeat that returns no excess
acceptHeatDropsExcess(comp, amount) ==
  LET space == capacity * One - comp.storedHeat
      accepted == Min(space, amount)
  IN  [comp |-> [comp EXCEPT !.storedHeat = comp.storedHeat + accepted], excess |-> 0]

\* CoolantCell.acceptHeat: the cell afterwards and the excess returned
acceptHeat(comp, amount) ==
  LET space == capacity * One - comp.storedHeat
      accepted == Min(space, amount)
  IN  [comp |-> [comp EXCEPT !.storedHeat = comp.storedHeat + accepted],
       excess |-> amount - accepted]

\* ------------------------------------------------------- ReactorGrid.tick
\* the cells in the order of the two nested loops: y outer, x inner
RowMajorOf(w, h) == [i \in 1..(w * h) |-> <<(i - 1) % w, (i - 1) \div w>>]
RowMajor == RowMajorOf(width, height)

\* One statement after another is written  CHOOSE out \in {after(v) : v \in {before}} : TRUE
\* which is after(before), with before computed once.
RECURSIVE TickFrom(_, _, _, _)
TickFrom(cs, s, order, i) ==
  IF i > Len(order) THEN s
  ELSE LET id == cs[order[i][2]][order[i][1]]
       IN  CHOOSE out \in {TickFrom(cs, ticked, order, i + 1) :
                            ticked \in {IF id # 0 THEN ComponentTick(cs, s, id) ELSE s}} : TRUE

\* the first loop of ReactorGrid.tick, visiting the cells in `order`
ProductionPass(cs, s, order) == TickFrom(cs, s, order, 1)

\* the ids held by the cells of `order` that are coolant cells, in that order
CoolantCells(cs, cps, order) ==
  LET held == [i \in 1..Len(order) |-> cs[order[i][2]][order[i][1]]]
  IN  SelectSeq(held, LAMBDA id : id # 0 /\ cps[id].type = CoolantType)

\* the forEach handing what a cell could not fit on to the next cell
RECURSIVE DistributeFromReoffers(_, _, _, _)
DistributeFromReoffers(s, coolantCells, amountPer, i) ==
  IF i > Len(coolantCells) THEN s
  ELSE LET id == coolantCells[i]
           r == acceptHeat(s.comps[id], amountPer + s.heat)
       IN  CHOOSE out \in {DistributeFromReoffers(given, coolantCells, amountPer, i + 1) :
                            given \in {[s EXCEPT !.comps[id] = r.comp,
                                                 !.heat = r.excess]}} : TRUE

RECURSIVE DistributeFrom(_, _, _, _)
DistributeFrom(s, coolantCells, amountPer, i) ==
  IF i > Len(coolantCells) THEN s
  ELSE LET id == coolantCells[i]
           r == acceptHeat(s.comps[id], amountPer)
       IN  CHOOSE out \in {DistributeFrom(given, coolantCells, amountPer, i + 1) :
                            given \in {[s EXCEPT !.comps[id] = r.comp,
                                                 !.heat = s.heat + r.excess]}} : TRUE

\* the second part of ReactorGrid.tick: the shared heat split among the coolant cells
Redistribute(cs, s) ==
  IF s.heat > 0
  THEN LET coolantCells == CoolantCells(cs, s.comps, RowMajor)
       IN  IF Len(coolantCells) > 0
           THEN LET amountPer == FDiv(s.heat, Len(coolantCells))
                IN  DistributeFrom([s EXCEPT !.heat = 0], coolantCells, amountPer, 1)
           ELSE s
  ELSE s

\* ReactorGrid.tick with the redistribution ahead of the component loop
GridTickResultRedistributesFirst(cs, s) ==
  CHOOSE out \in {ProductionPass(cs, shared, RowMajor) :
                   shared \in {Redistribute(cs, s)}} : TRUE

\* ReactorGrid.tick
GridTickResult(cs, s) ==
  CHOOSE out \in {Redistribute(cs, produced) :
                   produced \in {ProductionPass(cs, s, RowMajor)}} : TRUE

\* the loop of gameTick removing whatever a cell holds
ClearFuelCellsAndTheRest(cs, cps) ==
  [y \in 0..(height - 1) |-> [x \in 0..(width - 1) |-> 0]]

\* the loop of gameTick that removes every fuel cell
ClearFuelCells(cs, cps) ==
  [y \in 0..(height - 1) |->
    [x \in 0..(width - 1) |->
      IF cs[y][x] # 0 /\ cps[cs[y][x]].type = FuelCellType THEN 0 ELSE cs[y][x]]]

\* ------------------------------------------------------- initial state
\* what the last call returned: `call` names it when it was placeComponent, whose
\* false is not the undefined of the other operations
NoRet == [call |-> "none", placed |-> FALSE, sold |-> 0, excess |-> 0]

\* main.js as loaded: nothing selected, the game paused, no timer set
Loaded ==
  /\ selectedComponent = "null"
  /\ running = FALSE
  /\ tickInterval = 0
  /\ timers = {}
  /\ lastTimer = 0

\* new ReactorState(), new ReactorGrid(w, h, state)
Constructed(w, h) ==
  /\ width = w
  /\ height = h
  /\ cells = EmptyCells(w, h)
  /\ comps = << >>
  /\ heat = 0
  /\ power = 0
  /\ money = InitialMoney * One
  /\ ticks = 0
  /\ calls = 0
  /\ ret = NoRet
  /\ Loaded

Init == Constructed(Width, 1) \/ Constructed(1, Width)

Now == [comps |-> comps, heat |-> heat, power |-> power]

\* the ids of the components held by some cell
Held == {cells[y][x] : y \in 0..(height - 1), x \in 0..(width - 1)} \ {0}

\* ------------------------------------------------------- grid operations
\* placeComponent without the test for an occupied cell
placeComponentOverwrites(cs, cps, id, x, y) ==
  IF ~inBounds(x, y) THEN [cells |-> cs, comps |-> cps, placed |-> FALSE]
  ELSE [cells |-> [cs EXCEPT ![y][x] = id],
        comps |-> [cps EXCEPT ![id] = [setPosition(cps[id], x, y) EXCEPT !.gridRef = TRUE]],
        placed |-> TRUE]

\* placeComponent that moves the component before it tests the cell
placeComponentMovesFirst(cs, cps, id, x, y) ==
  LET moved == [cps EXCEPT ![id] = [setPosition(cps[id], x, y) EXCEPT !.gridRef = TRUE]]
  IN  IF ~inBounds(x, y) THEN [cells |-> cs, comps |-> moved, placed |-> FALSE]
      ELSE IF cs[y][x] # 0 THEN [cells |-> cs, comps |-> moved, placed |-> FALSE]
      ELSE [cells |-> [cs EXCEPT ![y][x] = id], comps |-> moved, placed |-> TRUE]

\* ReactorGrid.placeComponent(comp, x, y) on the component object `id`:
\* the cells and the objects afterwards, and the value returned
placeComponent(cs, cps, id, x, y) ==
  IF ~inBounds(x, y) THEN [cells |-> cs, comps |-> cps, placed |-> FALSE]
  ELSE IF cs[y][x] # 0 THEN [cells |-> cs, comps |-> cps, placed |-> FALSE]
  ELSE [cells |-> [cs EXCEPT ![y][x] = id],
        comps |-> [cps EXCEPT ![id] = [setPosition(cps[id], x, y) EXCEPT !.gridRef = TRUE]],
        placed |-> TRUE]

\* removeComponent that empties the whole row of the cell
removeComponentClearsRow(cs, x, y) ==
  IF ~inBounds(x, y) THEN cs
  ELSE IF cs[y][x] = 0 THEN cs
  ELSE [cs EXCEPT ![y] = [c \in DOMAIN cs[y] |-> 0]]

\* ReactorGrid.removeComponent(x, y): the cells afterwards
removeComponent(cs, x, y) ==
  IF ~inBounds(x, y) THEN cs
  ELSE IF cs[y][x] = 0 THEN cs
  ELSE [cs EXCEPT ![y][x] = 0]

\* sellPower that leaves the sold power in the store
sellPowerKeepsPower(p, m) == [power |-> p, money |-> m + p, sold |-> p]

\* ReactorState.sellPower: the state's fields afterwards and the value returned
sellPower(p, m) ==
  LET sold == p
  IN  [power |-> 0, money |-> m + sold, sold |-> sold]

\* ------------------------------------------------------- inputs
\* coordinates handed to the grid: every cell, and one step outside on each side
Targets ==
  {<<x, y>> : x \in 0..(width - 1), y \in 0..(height - 1)}
    \cup {<<-1, 0>>, <<0, -1>>, <<width, 0>>, <<0, height>>, <<width, height>>}

\* amounts handed to addHeat, removeHeat, addPower and acceptHeat, in ulps
Amounts == {0, 1, One, capacity * One, heatCapacity * One}

\* ------------------------------------------------------- actions
\* comp = new FuelCell() | new Vent() | new CoolantCell(); grid.placeComponent(comp, x, y).
\* A rejected component is dropped by the caller: it is as it was constructed, and
\* no different from the next one constructed.
PlaceNew(type, x, y) ==
  /\ Len(comps) < MaxComps
  /\ LET id == Len(comps) + 1
     IN  \E r \in {placeComponent(cells, Append(comps, NewComponent(type)), id, x, y)} :
         /\ cells' = r.cells
         /\ comps' = IF r.placed THEN r.comps ELSE comps
         /\ ret' = [NoRet EXCEPT !.call = "place", !.placed = r.placed]
  /\ UNCHANGED <<ui, width, height, heat, power, money, ticks, calls>>

\* grid.placeComponent(comp, x, y) on an object the caller holds and the grid does not
PlaceAgain(id, x, y) ==
  /\ id \in 1..Len(comps)
  /\ id \notin Held
  /\ \E r \in {placeComponent(cells, comps, id, x, y)} :
         /\ cells' = r.cells
         /\ comps' = r.comps
         /\ ret' = [NoRet EXCEPT !.call = "place", !.placed = r.placed]
  /\ UNCHANGED <<ui, width, height, heat, power, money, ticks, calls>>

\* grid.removeComponent(x, y)
RemoveComponent(x, y) ==
  /\ cells' = removeComponent(cells, x, y)
  /\ ret' = NoRet
  /\ UNCHANGED <<ui, width, height, comps, heat, power, money, ticks, calls>>

\* grid.tick(): what it does to the grid and the state
DoGridTick ==
  /\ \E s \in {GridTickResult(cells, Now)} :
         /\ comps' = s.comps
         /\ heat' = s.heat
         /\ power' = s.power
  /\ ret' = NoRet
  /\ UNCHANGED <<ui, width, height, cells, money, calls>>

\* gameTick(): grid.tick(), then the meltdown check
DoGameTick ==
  /\ \E s \in {GridTickResult(cells, Now)} :
         /\ comps' = s.comps
         /\ power' = s.power
         /\ IF s.heat > heatCapacity * One
            THEN /\ cells' = ClearFuelCells(cells, s.comps)
                 /\ heat' = 0
            ELSE /\ cells' = cells
                 /\ heat' = s.heat
  /\ ret' = NoRet
  /\ UNCHANGED <<ui, width, height, money, calls>>

\* comp.tick(ctx) on one component of the grid
DoTickComponent(id) ==
  /\ id \in Held
  /\ \E s \in {ComponentTick(cells, Now, id)} :
         /\ comps' = s.comps
         /\ heat' = s.heat
         /\ power' = s.power
  /\ ret' = NoRet
  /\ UNCHANGED <<ui, width, height, cells, money, calls>>

\* the three ticks, counted against MaxTicks
GridTick == ticks < MaxTicks /\ ticks' = ticks + 1 /\ DoGridTick

GameTick == ticks < MaxTicks /\ ticks' = ticks + 1 /\ DoGameTick

TickComponent(id) == ticks < MaxTicks /\ ticks' = ticks + 1 /\ DoTickComponent(id)

\* cell.acceptHeat(amount) on a coolant cell
AcceptHeat(id, amount) ==
  /\ calls < MaxCalls
  /\ calls' = calls + 1
  /\ id \in 1..Len(comps)
  /\ comps[id].type = CoolantType
  /\ LET r == acceptHeat(comps[id], amount)
     IN  /\ comps' = [comps EXCEPT ![id] = r.comp]
         /\ ret' = [NoRet EXCEPT !.excess = r.excess]
  /\ UNCHANGED <<ui, width, height, cells, heat, power, money, ticks>>

\* state.addHeat(amount)
AddHeat(amount) ==
  /\ calls < MaxCalls
  /\ calls' = calls + 1
  /\ heat' = addHeat(heat, amount)
  /\ ret' = NoRet
  /\ UNCHANGED <<ui, width, height, cells, comps, power, money, ticks>>

\* state.removeHeat(amount)
RemoveHeat(amount) ==
  /\ calls < MaxCalls
  /\ calls' = calls + 1
  /\ heat' = removeHeat(heat, amount)
  /\ ret' = NoRet
  /\ UNCHANGED <<ui, width, height, cells, comps, power, money, ticks>>

\* state.addPower(amount)
AddPower(amount) ==
  /\ calls < MaxCalls
  /\ calls' = calls + 1
  /\ power' = addPower(power, amount)
  /\ ret' = NoRet
  /\ UNCHANGED <<ui, width, height, cells, comps, heat, money, ticks>>

\* state.sellPower(), as the sell button calls it
SellPower ==
  /\ LET r == sellPower(power, money)
     IN  /\ power' = r.power
         /\ money' = r.money
         /\ ret' = [NoRet EXCEPT !.sold = r.sold]
  /\ UNCHANGED <<ui, width, height, cells, comps, heat, ticks, calls>>

\* every operation of the grid, the state and the components, and the game's handlers
Next ==
  \/ \E type \in ComponentType, t \in Targets : PlaceNew(type, t[1], t[2])
  \/ \E id \in 1..MaxComps, t \in Targets : PlaceAgain(id, t[1], t[2])
  \/ \E t \in Targets : RemoveComponent(t[1], t[2])
  \/ GridTick
  \/ GameTick
  \/ \E id \in 1..MaxComps : TickComponent(id)
  \/ \E id \in 1..MaxComps, amount \in Amounts : AcceptHeat(id, amount)
  \/ \E amount \in Amounts : AddHeat(amount)
  \/ \E amount \in Amounts : RemoveHeat(amount)
  \/ \E amount \in Amounts : AddPower(amount)
  \/ SellPower

Spec == Init /\ [][Next]_vars


\* ------------------------------------------------------- the game's handlers
CellsOf(w, h) == {<<x, y>> : x \in 0..(w - 1), y \in 0..(h - 1)}

\* what a palette button may put in selectedComponent
Selections == {"delete", FuelCellType, VentType, CoolantType, "other"}

\* the palette buttons' click handler
SelectComponent(sel) ==
  /\ selectedComponent' = sel
  /\ UNCHANGED <<width, height, cells, comps, heat, power, money, ticks, calls, ret,
                 running, tickInterval, timers, lastTimer>>

\* onGridClick asking for no money
PriceNothing(sel) == 0

\* the money that onGridClick asks for before it constructs a component
Price(sel) ==
  IF sel = FuelCellType THEN 10
  ELSE IF sel = VentType THEN 5
  ELSE 20

\* onGridClick on the cell (x, y)
OnGridClick(x, y) ==
  /\ IF selectedComponent = "null" \/ selectedComponent = "other"
     THEN UNCHANGED <<cells, comps, money, ret>>
     ELSE IF selectedComponent = "delete"
     THEN /\ cells' = removeComponent(cells, x, y)
          /\ ret' = NoRet
          /\ UNCHANGED <<comps, money>>
     ELSE IF money < Price(selectedComponent) * One
     THEN UNCHANGED <<cells, comps, money, ret>>
     ELSE /\ Len(comps) < MaxClicked
          /\ \E r \in {placeComponent(cells, Append(comps, NewComponent(selectedComponent)),
                                       Len(comps) + 1, x, y)} :
               /\ cells' = r.cells
               /\ comps' = IF r.placed THEN r.comps ELSE comps
               /\ ret' = [NoRet EXCEPT !.call = "place", !.placed = r.placed]
               /\ money' = IF r.placed THEN money - Cost(selectedComponent) * One ELSE money
  /\ UNCHANGED <<ui, width, height, heat, power, ticks, calls>>

\* the toggle that pauses without clearing the timer
toggleLeavesTimer(r, interval, set, last) ==
  IF ~r
  THEN [running |-> TRUE, tickInterval |-> last + 1, timers |-> set \cup {last + 1},
        lastTimer |-> last + 1]
  ELSE [running |-> FALSE, tickInterval |-> 0, timers |-> set, lastTimer |-> last]

\* the start/pause button's click handler: running, tickInterval, the timers set and
\* their count afterwards
toggle(r, interval, set, last) ==
  IF ~r
  THEN [running |-> TRUE, tickInterval |-> last + 1, timers |-> set \cup {last + 1},
        lastTimer |-> last + 1]
  ELSE [running |-> FALSE, tickInterval |-> 0, timers |-> set \ {interval},
        lastTimer |-> last]

Toggle ==
  /\ running \/ lastTimer < MaxTimers
  /\ \E t \in {toggle(running, tickInterval, timers, lastTimer)} :
       /\ running' = t.running
       /\ tickInterval' = t.tickInterval
       /\ timers' = t.timers
       /\ lastTimer' = t.lastTimer
  /\ UNCHANGED <<width, height, cells, comps, heat, power, money, ticks, calls, ret,
                 selectedComponent>>

\* an interval timer fires: gameTick()
TimerFires(timer) == timer \in timers /\ GameTick

\* the page: palette, grid clicks, the sell button, the start/pause button, the timer
NextGame ==
  \/ \E sel \in Selections : SelectComponent(sel)
  \/ \E q \in CellsOf(width, height) : OnGridClick(q[1], q[2])
  \/ SellPower
  \/ Toggle
  \/ \E timer \in 1..MaxTimers : TimerFires(timer)

SpecGame == Init /\ [][NextGame]_vars

\* ------------------------------------------------------- laid-out grids
\* A second specification starts from grids already laid out and run for a while:
\* components placed in row-major order, fuel cells young, about to expire or
\* expired, coolant cells empty, nearly full or full, heat and power in store.

\* what a cell of a layout holds
Nothing == [type |-> "none", age |-> 0, storedHeat |-> 0]
Fuel(age) == [type |-> FuelCellType, age |-> age, storedHeat |-> 0]
AVent == [type |-> VentType, age |-> 0, storedHeat |-> 0]
Coolant(storedHeat) == [type |-> CoolantType, age |-> 0, storedHeat |-> storedHeat]

\* the grid and the objects after placing layout K's components in row-major order
LaidOut(layout, w, h, h0, p0) ==
  \E K \in {layout} : \E occupied \in {SelectSeq(RowMajorOf(w, h), LAMBDA q : K[q] # Nothing)} :
      /\ width = w
      /\ height = h
      /\ cells = [y \in 0..(h - 1) |-> [x \in 0..(w - 1) |->
                    IF K[<<x, y>>] = Nothing THEN 0
                    ELSE CHOOSE r \in 1..Len(occupied) : occupied[r] = <<x, y>>]]
      /\ comps = [r \in 1..Len(occupied) |->
                    [type |-> K[occupied[r]].type,
                     x |-> occupied[r][1],
                     y |-> occupied[r][2],
                     gridRef |-> TRUE,
                     age |-> K[occupied[r]].age,
                     storedHeat |-> K[occupied[r]].storedHeat]]
      /\ heat = h0
      /\ power = p0
      /\ money = InitialMoney * One
      /\ ticks = 0
      /\ calls = 0
      /\ ret = NoRet
      /\ Loaded

diagonals == << <<1, 1>>, <<1, -1>>, <<-1, 1>>, <<-1, -1>> >>

\* a layout around cell c: `centre` at c, around[i] in direction dirs[i], `corner`
\* on the four diagonals, nothing elsewhere
Around(w, h, c, centre, around, corner) ==
  [q \in CellsOf(w, h) |->
    IF q = c THEN centre
    ELSE IF \E i \in 1..4 : q = <<c[1] + dirs[i][1], c[2] + dirs[i][2]>>
      THEN around[CHOOSE i \in 1..4 : q = <<c[1] + dirs[i][1], c[2] + dirs[i][2]>>]
    ELSE IF \E i \in 1..4 : q = <<c[1] + diagonals[i][1], c[2] + diagonals[i][2]>>
      THEN corner
    ELSE Nothing]

\* a young fuel cell anywhere on the grid, with anything beside it
InitNeighbours ==
  \E c \in CellsOf(TickSize, TickSize),
     around \in [1..4 -> {Nothing, Fuel(0), Fuel(lifespan), AVent, Coolant(0)}],
     corner \in {Nothing, Fuel(0)} :
    LaidOut(Around(TickSize, TickSize, c, Fuel(0), around, corner), TickSize, TickSize, 0, 0)

\* a fuel cell about to expire or expired, alone or among fuel cells, the power
\* store empty, nearly full or full
InitAges ==
  \E c \in {<<0, 0>>, <<1, 1>>},
     centre \in {Fuel(lifespan - 1), Fuel(lifespan)},
     beside \in {Nothing, Fuel(0)},
     p0 \in {0, (powerCapacity - 2) * One, powerCapacity * One} :
    LaidOut(Around(TickSize, TickSize, c, centre, [i \in 1..4 |-> beside], Nothing),
            TickSize, TickSize, 0, p0)

\* the stored heat of a laid-out coolant cell, and the heat in the pool
StoredStarts == {0, 190 * One, capacity * One - 1, capacity * One}
HeatStarts ==
  {0, 1, One, 50 * One, 50 * One + 1, 100 * One, heatCapacity * One, (heatCapacity + 1) * One}

\* up to three coolant cells, each at any level, with or without a fuel cell
InitCoolant ==
  \E a \in StoredStarts \cup {-1}, b \in StoredStarts \cup {-1}, c \in StoredStarts \cup {-1},
     fuel \in BOOLEAN, h0 \in HeatStarts :
    /\ (a = -1 => b = -1) /\ (b = -1 => c = -1)
    /\ LaidOut([q \in CellsOf(TickSize, TickSize) |->
                  IF q = <<0, 0>> /\ a # -1 THEN Coolant(a)
                  ELSE IF q = <<TickSize - 1, 0>> /\ b # -1 THEN Coolant(b)
                  ELSE IF q = <<1, TickSize - 1>> /\ c # -1 THEN Coolant(c)
                  ELSE IF q = <<1, 1>> /\ fuel THEN Fuel(0)
                  ELSE Nothing],
               TickSize, TickSize, h0, 0)

InitTick == InitNeighbours \/ InitAges \/ InitCoolant

\* ticks and heat offered to coolant cells, on the laid-out grids
Budget == ticks + calls < TickSteps

NextTick ==
  \/ Budget /\ GridTick
  \/ Budget /\ GameTick
  \/ \E id \in 1..Len(comps) : Budget /\ TickComponent(id)
  \/ \E id \in 1..Len(comps), amount \in Amounts : Budget /\ AcceptHeat(id, amount)

SpecTick == InitTick /\ [][NextTick]_vars

\* ------------------------------------------------------- the running game
\* A third specification lets the ticks run without a count, as the game's timer
\* does while the game runs: a fuel cell fresh or two ticks from expiring, alone or
\* beside another component.
InitLive ==
  \/ LaidOut(Around(TickSize, TickSize, <<1, 1>>, Fuel(0), [i \in 1..4 |-> Nothing], Nothing),
             TickSize, TickSize, 0, 0)
  \/ \E beside \in {Nothing, Fuel(lifespan - 3), Fuel(lifespan), AVent, Coolant(0)} :
       LaidOut(Around(TickSize, TickSize, <<0, 0>>, Fuel(lifespan - 2),
                      [i \in 1..4 |-> IF i = 1 THEN beside ELSE Nothing], Nothing),
               TickSize, TickSize, 0, 0)

LiveGridTick == DoGridTick /\ UNCHANGED ticks

LiveGameTick == DoGameTick /\ UNCHANGED ticks

LiveTickComponent(id) == DoTickComponent(id) /\ UNCHANGED ticks

NextLive ==
  \/ LiveGridTick
  \/ LiveGameTick
  \/ \E id \in 1..Len(comps) : LiveTickComponent(id)
  \/ \E t \in Targets : RemoveComponent(t[1], t[2])

\* the timer keeps firing gameTick
SpecLive == InitLive /\ [][NextLive]_vars /\ WF_vars(LiveGameTick)

\* ======================================================= claims
\* the fuel cells, vents and coolant cells that some cell holds
HeldOfType(type) == {id \in Held : comps[id].type = type}

\* what C1 says of a call placeComponent(comp, x, y) on object `id`, the step being that call
PlacedAsClaimed(id, x, y) ==
  LET free == /\ 0 <= x /\ x < width /\ 0 <= y /\ y < height
              /\ cells[y][x] = 0
  IN  /\ ret'.placed <=> free
      /\ ret'.placed => /\ cells'[y][x] = id
                        /\ comps'[id].x = x
                        /\ comps'[id].y = y

\* C1: placeComponent(c, x, y) returns true exactly when (x, y) is in bounds and the
\* cell is empty before the call; when it returns true, the cell holds c afterwards and
\* c's stored position is (x, y).
C1_PlaceSucceedsIffFree ==
  [][ret'.call = "place" =>
       /\ \A type \in ComponentType, t \in Targets :
            PlaceNew(type, t[1], t[2]) => PlacedAsClaimed(Len(comps) + 1, t[1], t[2])
       /\ \A id \in 1..MaxComps, t \in Targets :
            PlaceAgain(id, t[1], t[2]) => PlacedAsClaimed(id, t[1], t[2])]_vars

\* a placement succeeded on a grid that already held a component
C1_Witness == ret.placed /\ Cardinality(Held) = 2

C3_PowerWithinCapacity == 0 <= power /\ power <= powerCapacity * One

\* a fuel cell has ticked into a full power store
C3_Witness ==
  /\ power = powerCapacity * One
  /\ \E id \in HeldOfType(FuelCellType) : comps[id].age > 0

\* C4: heat >= 0.
C4_HeatNotNegative == heat >= 0

\* a vent has ticked with less heat in the pool than it removes
C4_Witness ==
  /\ heat = 0
  /\ ticks > 0
  /\ HeldOfType(VentType) # {}
  /\ \E id \in HeldOfType(FuelCellType) : comps[id].age > 0

\* C10: sellPower returns the power held before the call, leaves power at 0 and adds
\* exactly the returned amount to money; with power 0 it returns 0 and leaves money as
\* it was.
C10_SellPowerConserves ==
  [][SellPower =>
       /\ ret'.sold = power
       /\ power' = 0
       /\ money' = money + ret'.sold
       /\ power' + money' = power + money
       /\ power = 0 => (ret'.sold = 0 /\ money' = money)]_vars

\* power has been sold for money
C10_Witness == ret.sold > 0 /\ power = 0 /\ money = InitialMoney * One + ret.sold

\* the sum of the first n components' stored heat
RECURSIVE SumStored(_, _)
SumStored(cps, n) == IF n = 0 THEN 0 ELSE cps[n].storedHeat + SumStored(cps, n - 1)

\* the shared heat as the redistribution pass of a grid.tick() step finds it
HeatBeforePass == ProductionPass(cells, Now, RowMajor).heat

\* the stored heat gained by all coolant cells in a step
StoredIncrease == SumStored(comps', Len(comps)) - SumStored(comps, Len(comps))

Whole(v) == v % One = 0

FuelBeside(x, y) ==
  {d \in {<<1, 0>>, <<-1, 0>>, <<0, 1>>, <<0, -1>>} :
     /\ 0 <= x + d[1] /\ x + d[1] < width
     /\ 0 <= y + d[2] /\ y + d[2] < height
     /\ cells[y + d[2]][x + d[1]] # 0
     /\ comps[cells[y + d[2]][x + d[1]]].type = FuelCellType}

\* C6: a placed fuel cell's pulse count is 1 plus the number of orthogonal in-bounds
\* neighbour cells holding a fuel cell, expired or not; diagonal neighbours, vents and
\* coolant cells do not count; the count is between 1 and 5.
C6_PulsesCountFuelNeighbours ==
  \A id \in HeldOfType(FuelCellType) :
    /\ pulses(cells, comps, comps[id]) = 1 + Cardinality(FuelBeside(comps[id].x, comps[id].y))
    /\ pulses(cells, comps, comps[id]) \in 1..5

\* a fuel cell with a fuel cell on each side, one of them expired, and fuel cells on
\* its diagonals has ticked 5 pulses of heat and power
C6_Witness ==
  \E id \in HeldOfType(FuelCellType) :
    /\ pulses(cells, comps, comps[id]) = 5
    /\ Len(comps) = 9
    /\ \E n \in HeldOfType(FuelCellType) : comps[n].age = lifespan
    /\ comps[id].age = 1
    /\ heat = 5 * One

\* C7: FuelCell.tick on a cell younger than its lifespan adds 1 to its age, basePower x
\* pulses to power, clamped to powerCapacity, and baseHeat x pulses to heat.
C7_FuelCellTickLinear ==
  [][\A id \in 1..(TickSize * TickSize + 1) :
       (/\ DoTickComponent(id)
        /\ comps[id].type = FuelCellType
        /\ comps[id].age < lifespan)
       => LET n == 1 + Cardinality(FuelBeside(comps[id].x, comps[id].y))
          IN  /\ comps'[id].age = comps[id].age + 1
              /\ power' = Min(power + basePower * n * One, powerCapacity * One)
              /\ heat' = heat + baseHeat * n * One
              /\ \A other \in 1..Len(comps) : other # id => comps'[other] = comps[other]]_vars

\* a lone fresh fuel cell has ticked once from power 0 and heat 0
C7_Witness ==
  /\ Len(comps) = 1
  /\ comps[1].type = FuelCellType
  /\ comps[1].age = 1
  /\ power = One
  /\ heat = One
  /\ ticks = 1

\* C8: a fuel cell at the end of its lifespan is inert: its tick changes neither power,
\* heat nor its age and leaves it in its cell; age <= lifespan always; and a fuel cell
\* that keeps being ticked and is not removed reaches age = lifespan.
C8_ExpiredFuelCellInert ==
  /\ [][\A id \in 1..(TickSize * TickSize + 1) :
          (/\ id \in HeldOfType(FuelCellType)
           /\ comps[id].age = lifespan)
          => /\ DoTickComponent(id) => UNCHANGED <<comps, heat, power, cells>>
             /\ DoGridTick => (comps'[id] = comps[id] /\ cells' = cells)
             /\ (DoGridTick /\ \A other \in Held : comps[other].type = FuelCellType
                                                  /\ comps[other].age = lifespan)
                => UNCHANGED <<comps, heat, power, cells>>]_vars
  /\ [](\A id \in 1..Len(comps) : comps[id].age <= lifespan)
  /\ \A id \in 1..2 :   \* the layouts of InitLive hold at most two components
       (id \in HeldOfType(FuelCellType)) ~> (id \notin Held \/ comps[id].age = lifespan)

\* two fuel cells side by side have both expired, the first a tick before the second
C8_Witness ==
  /\ Len(comps) = 2
  /\ Held = {1, 2}
  /\ comps[1].type = FuelCellType /\ comps[1].age = lifespan
  /\ comps[2].type = FuelCellType /\ comps[2].age = lifespan
  /\ heat = 10 * One

\* C9: a coolant cell's stored heat stays within 0..capacity and never decreases;
\* acceptHeat(amount) raises it by min(amount, capacity - storedHeat) and returns the rest.
C9_StoredHeatBounded ==
  /\ [](\A id \in 1..Len(comps) :
          0 <= comps[id].storedHeat /\ comps[id].storedHeat <= capacity * One)
  /\ [][\A id \in 1..Len(comps) : comps'[id].storedHeat >= comps[id].storedHeat]_vars
  /\ [][\A id \in 1..(TickSize * TickSize + 1), amount \in Amounts :
          AcceptHeat(id, amount) =>
            LET accepted == Min(amount, capacity * One - comps[id].storedHeat)
            IN  /\ comps'[id].storedHeat = comps[id].storedHeat + accepted
                /\ ret'.excess = amount - accepted]_vars

\* a lone coolant cell holding 190 has been offered the pool's 50 by a tick
C9_Witness ==
  /\ Len(comps) = 1
  /\ comps[1].type = CoolantType
  /\ comps[1].storedHeat = capacity * One
  /\ heat = 40 * One
  /\ ticks = 1

\* C11: a placeComponent call that returns false changes nothing: every cell holds what
\* it held, the rejected component keeps its stored position and grid back-reference,
\* and heat, power and money are as they were.
C11_RejectedPlaceChangesNothing ==
  [][(ret'.call = "place" /\ ~ret'.placed) =>
       /\ \A type \in ComponentType, t \in Targets :
            PlaceNew(type, t[1], t[2])
            => /\ UNCHANGED <<cells, comps, heat, power, money>>
               /\ placeComponent(cells, Append(comps, NewComponent(type)),
                                 Len(comps) + 1, t[1], t[2]).comps[Len(comps) + 1]
                    = NewComponent(type)
       /\ \A id \in 1..MaxComps, t \in Targets :
            PlaceAgain(id, t[1], t[2])
            => UNCHANGED <<cells, comps, heat, power, money>>]_vars

\* a removed component has been offered to the cell that holds the other component,
\* away from where it was, and was rejected
C11_Witness ==
  /\ ret.call = "place" /\ ~ret.placed
  /\ Len(comps) = 2
  /\ Cardinality(Held) = 1
  /\ \E id \in Held : comps[id].x + comps[id].y > 0
  /\ \E id \in 1..2 : id \notin Held /\ comps[id].x = 0 /\ comps[id].y = 0

\* C12: removeComponent(x, y) changes nothing when (x, y) is out of bounds or the cell
\* is empty; otherwise it empties cell (x, y) and no other cell; heat, power and money
\* are unchanged either way. Removing at the cell of a successful placement gives back
\* the cells of before the placement, and the cell accepts a placement again.
C12_RemoveEmptiesOneCell ==
  [][/\ \A t \in Targets :
          RemoveComponent(t[1], t[2])
          => LET x == t[1]
                 y == t[2]
                 there == /\ 0 <= x /\ x < width /\ 0 <= y /\ y < height
                          /\ cells[y][x] # 0
             IN  /\ UNCHANGED <<heat, power, money>>
                 /\ ~there => cells' = cells
                 /\ there => /\ cells'[y][x] = 0
                             /\ \A y2 \in 0..(height - 1), x2 \in 0..(width - 1) :
                                  <<x2, y2>> # <<x, y>> => cells'[y2][x2] = cells[y2][x2]
     /\ \A type \in ComponentType, t \in Targets :
          (ret'.placed /\ PlaceNew(type, t[1], t[2]))
          => /\ removeComponent(cells', t[1], t[2]) = cells
             /\ placeComponent(removeComponent(cells', t[1], t[2]), comps',
                               Len(comps'), t[1], t[2]).placed]_vars

\* a component was removed from a grid holding two, and its cell was placed on again
C12_Witness ==
  /\ Len(comps) = 2
  /\ Held = {2}
  /\ comps[1].x = comps[2].x /\ comps[1].y = comps[2].y
  /\ ret.call = "place" /\ ret.placed

\* C13: a component that no cell holds any more does not refer to the grid, and a
\* removed fuel cell finds no neighbours: its pulses are 1.
C13_RemovedComponentForgetsGrid ==
  \A id \in 1..Len(comps) :
    id \notin Held
    => /\ ~comps[id].gridRef
       /\ comps[id].type = FuelCellType => pulses(cells, comps, comps[id]) = 1

C15_OverloadClearsGrid ==
  [][GameTick =>
       ~(/\ power' = powerCapacity * One
         /\ \E y \in 0..(height - 1), x \in 0..(width - 1) : cells'[y][x] # 0)]_vars

\* the heat that the fuel cells `ids` generate in one tick: baseHeat x pulses each
RECURSIVE HeatGenerated(_)
HeatGenerated(ids) ==
  IF ids = {} THEN 0
  ELSE LET id == CHOOSE i \in ids : TRUE
       IN  baseHeat * (1 + Cardinality(FuelBeside(comps[id].x, comps[id].y))) * One
             + HeatGenerated(ids \ {id})

Occupied == {q \in CellsOf(width, height) : cells[q[2]][q[1]] # 0}

\* the orders in which a pass may visit the occupied cells: every order when few
\* cells are occupied, else the sweeps by rows and by columns, forwards and backwards
ColumnMajor == [i \in 1..(width * height) |-> <<(i - 1) \div height, (i - 1) % height>>]
Reversed(order) == [i \in 1..Len(order) |-> order[Len(order) + 1 - i]]
VisitOrders ==
  IF Cardinality(Occupied) <= MaxPermuted
  THEN {order \in [1..Cardinality(Occupied) -> Occupied] :
          \A i, j \in 1..Cardinality(Occupied) : i # j => order[i] # order[j]}
  ELSE {Reversed(RowMajor), ColumnMajor, Reversed(ColumnMajor)}

\* C18 as stated: the production pass leaves the same heat, power and components
\* whatever the order in which it visits the occupied cells.
C18_AnyOrderSameOutcome ==
  \A order \in VisitOrders :
    ProductionPass(cells, Now, order) = ProductionPass(cells, Now, RowMajor)

\* C18 as amended: the same, when the heat before the pass is at least coolingRate
\* for each vent on the grid, as it is on a grid without vents.
C18_AnyOrderSameOutcomeAboveFloor ==
  heat >= coolingRate * One * Cardinality(HeldOfType(VentType))
  => \A order \in VisitOrders :
       ProductionPass(cells, Now, order) = ProductionPass(cells, Now, RowMajor)

\* after a tick, a grid with a vent and a fuel cell still to tick holds heat enough
\* for its vents
C18_Witness ==
  /\ ticks = 1
  /\ HeldOfType(VentType) # {}
  /\ heat >= coolingRate * One * Cardinality(HeldOfType(VentType))
  /\ \E id \in HeldOfType(FuelCellType) : comps[id].age = 1
  /\ Cardinality(Occupied) <= MaxPermuted

\* C19: a fuel cell's tick changes only its own age and the shared heat and power; a
\* vent's tick changes only the shared heat, to max(0, heat - coolingRate); a coolant
\* cell's tick changes nothing. grid.tick() changes neither which component a cell
\* holds, nor a component's class or position, nor money, and changes nothing at all
\* on an empty grid.
C19_TicksHaveConfinedEffects ==
  [][/\ \A id \in 1..(TickSize * TickSize + 1) :
          TickComponent(id)
          => /\ UNCHANGED <<cells, money>>
             /\ \A other \in 1..Len(comps) : other # id => comps'[other] = comps[other]
             /\ comps'[id] = [comps[id] EXCEPT !.age = comps'[id].age]
             /\ comps[id].type = VentType
                => /\ comps' = comps
                   /\ power' = power
                   /\ heat' = IF heat > coolingRate * One THEN heat - coolingRate * One ELSE 0
             /\ comps[id].type = CoolantType => UNCHANGED <<comps, heat, power>>
     /\ GridTick
          => /\ UNCHANGED <<cells, money>>
             /\ Len(comps') = Len(comps)
             /\ \A id \in 1..Len(comps) :
                  /\ comps'[id].type = comps[id].type
                  /\ comps'[id].x = comps[id].x
                  /\ comps'[id].y = comps[id].y
                  /\ comps'[id].gridRef = comps[id].gridRef
             /\ Held = {} => UNCHANGED <<comps, heat, power>>]_vars

\* a tick has run on a grid holding a fuel cell, a vent and a coolant cell
C19_Witness ==
  /\ ticks = 1
  /\ HeldOfType(VentType) # {}
  /\ HeldOfType(CoolantType) # {}
  /\ \E id \in HeldOfType(FuelCellType) : comps[id].age = 1

\* C16: a grid click puts a component in a cell only when money is at least its cost
\* (10 fuel cell, 5 vent, 20 coolant); money goes down by that cost exactly when
\* placeComponent succeeded and is unchanged by a click on an occupied cell, without
\* the funds, or with delete selected. Money is never negative.
C16_ClickChargesOnSuccess ==
  /\ [][\A q \in CellsOf(width, height) :
          OnGridClick(q[1], q[2])
          => LET cost == IF selectedComponent = FuelCellType THEN FuelCellCost
                         ELSE IF selectedComponent = VentType THEN VentCost
                         ELSE CoolantCost
                 placed == /\ selectedComponent \in ComponentType
                           /\ cells[q[2]][q[1]] = 0
                           /\ cells'[q[2]][q[1]] # 0
             IN  /\ placed => (money >= cost * One /\ money' = money - cost * One)
                 /\ ~placed => (money' = money /\ cells'[q[2]][q[1]] \in {0, cells[q[2]][q[1]]})
                 /\ (/\ selectedComponent \in ComponentType
                     /\ cells[q[2]][q[1]] = 0
                     /\ money >= cost * One) => placed]_vars
  /\ [](money >= 0)

\* two coolant cells have been bought, and a click for a third, on the cell that a
\* delete emptied, has found the money short
C16_Witness ==
  /\ money = (InitialMoney - 2 * CoolantCost) * One
  /\ selectedComponent = CoolantType
  /\ Len(comps) = 2
  /\ Cardinality(Held) = 1
  /\ ENABLED (\E q \in CellsOf(width, height) :
                cells[q[2]][q[1]] = 0 /\ OnGridClick(q[1], q[2]))

\* C20: at most one interval timer is set; one is set exactly when running is true, and
\* it is the one tickInterval names; gameTick fires only while running.
C20_OneTimerWhileRunning ==
  /\ [](/\ Cardinality(timers) <= 1
        /\ running <=> tickInterval # 0
        /\ running <=> timers # {}
        /\ running => timers = {tickInterval})
  /\ [][(\E timer \in 1..MaxTimers : TimerFires(timer)) => running]_vars

\* the game was started, paused and started again, and the second timer has fired
C20_Witness ==
  /\ running
  /\ lastTimer = 2
  /\ timers = {2}
  /\ ticks > 0

\* what the coolant cells `ids` cannot fit of a share offered to each of them
RECURSIVE ExcessOf(_, _)
ExcessOf(ids, share) ==
  IF ids = {} THEN 0
  ELSE LET id == CHOOSE i \in ids : TRUE
           space == capacity * One - comps[id].storedHeat
       IN  (IF share > space THEN share - space ELSE 0) + ExcessOf(ids \ {id}, share)

\* C21: in the redistribution pass of grid.tick() every coolant cell is offered the
\* same share, heat / number of coolant cells (the quotient rounded to the nearest
\* number), once: it gains min(share, its free space), and the heat after the pass is
\* the sum over the coolant cells of max(0, share - free space), which is 0 exactly
\* when every coolant cell had room for the share.
C21_EachCoolantOfferedShareOnce ==
  [][GridTick =>
       LET coolant == HeldOfType(CoolantType)
           n == Cardinality(coolant)
       IN  n > 0 =>
             \E share \in {HeatBeforePass \div n, HeatBeforePass \div n + 1} :
               /\ 2 * (n * share - HeatBeforePass) <= n
               /\ 2 * (HeatBeforePass - n * share) <= n
               /\ \A c \in coolant :
                    LET space == capacity * One - comps[c].storedHeat
                    IN  comps'[c].storedHeat - comps[c].storedHeat
                          = IF share < space THEN share ELSE space
               /\ heat' = ExcessOf(coolant, share)
               /\ heat' = 0 <=> \A c \in coolant :
                                  capacity * One - comps[c].storedHeat >= share]_vars

\* a full and an empty coolant cell have shared a heat of 100: 50 is left in the
\* pool although the second cell has room for it
C21_Witness ==
  /\ ticks = 1
  /\ Len(comps) = 2
  /\ Held = {1, 2}
  /\ comps[1].type = CoolantType /\ comps[1].storedHeat = capacity * One
  /\ comps[2].type = CoolantType /\ comps[2].storedHeat = 50 * One
  /\ heat = 50 * One

====
